---------------------------- MODULE Spec2Model ----------------------------
(***************************************************************************)
(* The two-tap feedback echo of src/alc/effects/echo.cpp (EchoState):      *)
(* deviceUpdate (buffer sizing), update (parameter translation) and        *)
(* process (the per-block loop over the circular delay buffer).            *)
(*                                                                         *)
(* Numbers.  Audio samples and gains are floats in the code; the model     *)
(* keeps them as integers, which keeps what the properties are about       *)
(* (which slot is read and written when, what is added where, what is      *)
(* zero).  Times are kept in milliseconds (EchoMaxDelay 0.207 s = 207) and *)
(* sample rates are scaled down to a few Hz so that the delay buffer has   *)
(* 2, 4 or 8 slots; the rounding and power-of-two arithmetic is the        *)
(* code's.  size_t is wider than TLC's integers, so index arithmetic       *)
(* wraps modulo SizeMod, a power of two every buffer length divides.       *)
(***************************************************************************)
EXTENDS Integers, Sequences, FiniteSets, TLC

VARIABLES
    mSampleRate,    \* Device->mSampleRate, the device's rate (0: no device yet)
    mSampleBuffer,  \* std::vector<float>: a function on 0 .. size-1
    mDelayTap,      \* std::array<size_t,2> as <<tap 0 offset, tap 1 offset>>
    mOffset,        \* size_t write cursor
    mGains,         \* <<OutGains, OutGains>>, each [Current, Target]
    mFilter,        \* BiquadFilter: coefficients b0 b1 b2 a1 a2, state z1 z2
    mFeedGain,      \* float feedback gain
    mTempBuffer,    \* the two per-tap lines, each a function on 0 .. MaxBlock-1
    mOutTarget,     \* the output buffer the effect mixes into
    allocations,    \* how many times the vector's storage was allocated
    lastOp,         \* the handler that ran last
    obs,            \* what the last process call did, sample by sample
    hist,           \* experiments: the record kept for the properties
    scen,           \* experiments: where the experiment stands
    steps           \* handler calls so far (bounds the run)

vars == <<mSampleRate, mSampleBuffer, mDelayTap, mOffset, mGains, mFilter,
          mFeedGain, mTempBuffer, mOutTarget, allocations, lastOp, obs,
          hist, scen, steps>>

-----------------------------------------------------------------------------
(* Bounds of the model *)

MaxRate == 8        \* sample rates up to this many Hz
MaxBlock == 2       \* samplesToDo is 1 .. MaxBlock
MaxSteps == 3       \* handler calls in one run of Spec, after the first deviceUpdate
MaxSamples == 6     \* samples fed in one impulse experiment

(* Program constants *)

EchoMaxDelay == 207     \* milliseconds (0.207f, core/effects/base.h)
EchoMaxLRDelay == 404   \* milliseconds (0.404f, core/effects/base.h)
SizeMod == 65536        \* size_t arithmetic wraps modulo this
NumChannels == 3        \* gain vector entries kept (MaxAmbiChannels)

-----------------------------------------------------------------------------
(* Arithmetic helpers *)

Max(a, b) == IF a >= b THEN a ELSE b
Min(a, b) == IF a <= b THEN a ELSE b

\* float2uint(ms/1000 * frequency + 0.5f): truncation of the value plus a half
RoundSamples(ms, frequency) == (2 * ms * frequency + 1000) \div 2000

\* ceil(ms/1000 * frequency), the rounding the prose gives for the sizes
CeilSamples(ms, frequency) == (ms * frequency + 999) \div 1000

RECURSIVE Pow2AtLeast(_, _)
Pow2AtLeast(p, value) == IF p >= value THEN p ELSE Pow2AtLeast(2 * p, value)

\* NextPowerOf2(value): the smallest power of two >= value (1 for 0)
NextPowerOf2(value) == Pow2AtLeast(1, value)

RECURSIVE BitAnd(_, _)
BitAnd(a, b) ==
    IF a = 0 \/ b = 0 THEN 0
    ELSE (a % 2) * (b % 2) + 2 * BitAnd(a \div 2, b \div 2)

\* unsigned size_t subtraction
SizeSub(a, b) == (a - b) % SizeMod

Size(buf) == Cardinality(DOMAIN buf)
Zeros(n) == [i \in 0 .. n - 1 |-> 0]

-----------------------------------------------------------------------------
(* EchoState::deviceUpdate *)

\* Variant: the sum itself, not rounded up to a power of two
MaxLenExact(frequency) ==
    RoundSamples(EchoMaxDelay, frequency) + RoundSamples(EchoMaxLRDelay, frequency)

\* Variant: sized for the first delay alone
MaxLenFirstOnly(frequency) == NextPowerOf2(RoundSamples(EchoMaxDelay, frequency))

\* maxlen: the rounded sample counts of the two maximum delays, summed, then
\* the next power of two
MaxLen(frequency) ==
    NextPowerOf2(RoundSamples(EchoMaxDelay, frequency)
                 + RoundSamples(EchoMaxLRDelay, frequency))

\* Variant: a new vector on every call
NeedsAllocAlways(maxlen, buf) == TRUE

\* if(maxlen != mSampleBuffer.size())
NeedsAlloc(maxlen, buf) == maxlen # Size(buf)

\* decltype(mSampleBuffer)(maxlen).swap(mSampleBuffer): a fresh vector of
\* maxlen value-initialised floats
AllocBuffer(maxlen) == Zeros(maxlen)

\* Variant: the fill left out (only a new vector is zero)
FillZeroSkipped(buf) == buf

\* std::ranges::fill(mSampleBuffer, 0.0f)
FillZero(buf) == [i \in DOMAIN buf |-> 0]

\* OutGains{}: Current and Target value-initialised
OutGains == [Current |-> Zeros(NumChannels), Target |-> Zeros(NumChannels)]

\* Variant: only the Current vectors cleared
ResetGainsCurrentOnly(gains) ==
    [c \in DOMAIN gains |->
        [Current |-> Zeros(NumChannels), Target |-> gains[c].Target]]

\* mGains.fill(OutGains{})
ResetGains(gains) == [c \in DOMAIN gains |-> OutGains]

\* Variant: the cursor reset with a new vector
OffsetResetOnRealloc(offset, realloc) == IF realloc THEN 0 ELSE offset

\* Variant: the cursor cleared when the storage is kept
OffsetClearedOnReuse(offset, realloc) == IF realloc THEN offset ELSE 0

\* deviceUpdate leaves mOffset alone
OffsetAfterDeviceUpdate(offset, realloc) == offset

\* The handlers are functions of the instance's state s, a record of the
\* members (and of allocations, the count of vector allocations)
deviceUpdate(s, frequency) ==
    LET maxlen == MaxLen(frequency)
        realloc == NeedsAlloc(maxlen, s.mSampleBuffer)
        buf == IF realloc THEN AllocBuffer(maxlen) ELSE s.mSampleBuffer
    IN  [s EXCEPT !.mSampleBuffer = FillZero(buf),
                  !.allocations = IF realloc THEN @ + 1 ELSE @,
                  !.mGains = ResetGains(@),
                  !.mOffset = OffsetAfterDeviceUpdate(@, realloc)]

-----------------------------------------------------------------------------
(* EchoState::update *)

\* float2uint(std::round(ms/1000 * frequency)), for a time >= 0
RoundTime(ms, frequency) == (2 * ms * frequency + 1000) \div 2000

\* Variant: without the floor of one sample
DelayTap0Unclamped(delay, frequency) == RoundTime(delay, frequency)

\* mDelayTap[0] = max(round(Delay*frequency), 1u)
DelayTap0(delay, frequency) == Max(RoundTime(delay, frequency), 1)

\* mDelayTap[1] = round(LRDelay*frequency) + mDelayTap[0]
DelayTap1(lrdelay, frequency, tap0) == RoundTime(lrdelay, frequency) + tap0

\* gainhf = max(1 - Damping, 0.0625), in sixteenths
GainHF(damping) == Max(16 - damping, 1)

\* BiquadFilter::setParamsFromSlope(HighShelf, f0norm, gainhf, 1): sets the
\* five coefficients and leaves z1, z2.  At unity gain the shelf design has
\* b = a, a pass-through; below it the filter has memory of earlier inputs,
\* kept here as integer taps.
ShelfCoeffs(gainhf) ==
    IF gainhf = 16
    THEN [b0 |-> 1, b1 |-> 0, b2 |-> 0, a1 |-> 0, a2 |-> 0]
    ELSE [b0 |-> 1, b1 |-> 1, b2 |-> 1, a1 |-> 0, a2 |-> 0]

setParamsFromSlope(filter, gainhf) ==
    LET c == ShelfCoeffs(gainhf)
    IN  [filter EXCEPT !.b0 = c.b0, !.b1 = c.b1, !.b2 = c.b2,
                       !.a1 = c.a1, !.a2 = c.a2]

\* z = sqrt(1 - x*x) for x in {-1, 0, 1}
SpreadZ(x) == CHOOSE z \in 0 .. 1 : z * z = 1 - x * x

\* CalcAmbiCoeffs(x, 0, z, 0): the omnidirectional term, the lateral term and
\* the forward term of the direction
CalcAmbiCoeffs(x, z) == [c \in 0 .. NumChannels - 1 |->
                            IF c = 0 THEN 1 ELSE IF c = 1 THEN x ELSE z]

\* ComputePanGains(target.Main, coeffs, slot->Gain, gains): one gain per
\* output channel, the coefficient scaled by the send gain
ComputePanGains(coeffs, gain) == [c \in DOMAIN coeffs |-> coeffs[c] * gain]

\* Variant: Current set along with Target
CurrentSnapsToTarget(current, target) == target

\* update writes the Target vectors only
CurrentAfterUpdate(current, target) == current

\* Variant: tap 1's offset added to the offset tap 0 had before the call
updateStaleTap0(s, frequency, props, slotGain, target) ==
    LET tap0 == DelayTap0(props.Delay, frequency)
        tap1 == DelayTap1(props.LRDelay, frequency, s.mDelayTap[1])
        x == props.Spread
        z == SpreadZ(x)
        tgt == <<ComputePanGains(CalcAmbiCoeffs(x, z), slotGain),
                 ComputePanGains(CalcAmbiCoeffs(-x, z), slotGain)>>
    IN  [s EXCEPT !.mDelayTap = <<tap0, tap1>>,
                  !.mFilter = setParamsFromSlope(@, GainHF(props.Damping)),
                  !.mFeedGain = props.Feedback,
                  !.mOutTarget = target,
                  !.mGains = [c \in DOMAIN @ |->
                        [Current |-> CurrentAfterUpdate(@[c].Current, tgt[c]),
                         Target |-> tgt[c]]]]

\* update leaves the filter's running state, the buffer and mOffset alone
update(s, frequency, props, slotGain, target) ==
    LET tap0 == DelayTap0(props.Delay, frequency)
        tap1 == DelayTap1(props.LRDelay, frequency, tap0)
        x == props.Spread
        z == SpreadZ(x)
        tgt == <<ComputePanGains(CalcAmbiCoeffs(x, z), slotGain),
                 ComputePanGains(CalcAmbiCoeffs(-x, z), slotGain)>>
    IN  [s EXCEPT !.mDelayTap = <<tap0, tap1>>,
                  !.mFilter = setParamsFromSlope(@, GainHF(props.Damping)),
                  !.mFeedGain = props.Feedback,
                  !.mOutTarget = target,
                  !.mGains = [c \in DOMAIN @ |->
                        [Current |-> CurrentAfterUpdate(@[c].Current, tgt[c]),
                         Target |-> tgt[c]]]]

-----------------------------------------------------------------------------
(* EchoState::process *)

\* BiquadFilter::processOne(in, z1, z2), transposed direct form II:
\*   out = in*b0 + z1;  z1 = in*b1 - out*a1 + z2;  z2 = in*b2 - out*a2
processOne(filter, in, z1, z2) ==
    LET out == in * filter.b0 + z1
    IN  [out |-> out,
         z1 |-> in * filter.b1 - out * filter.a1 + z2,
         z2 |-> in * filter.b2 - out * filter.a2]

\* Variant: the remainder by the mask instead of the bitwise and
MaskedByModulo(x, mask) == x % mask

\* Variant: the masking left out
Unmasked(x, mask) == x

\* x &= mask
Masked(x, mask) == BitAnd(x, mask)

\* Variant: the chunk bounded by the write cursor's wrap only
ChunkLenCursorOnly(mask, offset, tap1, tap2, samplesToDo, i) ==
    Min(SizeSub(mask + 1, offset), samplesToDo - i)

\* Variant: the chunk runs to the wrap whatever is left of the block
ChunkLenToWrap(mask, offset, tap1, tap2, samplesToDo, i) ==
    SizeSub(mask + 1, Max(offset, Max(tap1, tap2)))

\* td = min(mask+1 - max_offset, samplesToDo - i)
ChunkLen(mask, offset, tap1, tap2, samplesToDo, i) ==
    Min(SizeSub(mask + 1, Max(offset, Max(tap1, tap2))), samplesToDo - i)

\* Variant: no feedback written
FeedbackTermDropped(filtered, feedGain) == 0

\* Variant: the filtered value written without the gain
FeedbackTermUngated(filtered, feedGain) == filtered

\* delaybuf[offset++] += filter.processOne(feedb, z1, z2) * mFeedGain: the
\* value added to the slot
FeedbackTerm(filtered, feedGain) == filtered * feedGain

\* One run of the do-while body.  st is the loop's state: the locals offset,
\* tap1, tap2, i, z1, z2, td, the buffer and the two temporary lines, and the
\* record of what the call did.  An index outside the buffer (or the line) is
\* undefined behaviour: the access is recorded in oob and the loop stops.
Body(st, in, filter, feedGain) ==
    LET buf == st.buf
        inb == /\ st.offset \in DOMAIN buf /\ st.tap1 \in DOMAIN buf
               /\ st.tap2 \in DOMAIN buf /\ st.i \in DOMAIN in
    IN  IF ~inb THEN [st EXCEPT !.oob = TRUE, !.td = 0]
        ELSE
        LET fed == [buf EXCEPT ![st.offset] = in[st.i]]
            out0 == fed[st.tap1]
            feedb == fed[st.tap2]
            f == processOne(filter, feedb, st.z1, st.z2)
            add == FeedbackTerm(f.out, feedGain)
            offset1 == st.offset + 1
            tap1n == st.tap1 + 1
            tap2n == st.tap2 + 1
        IN  [st EXCEPT
                !.buf = [fed EXCEPT ![st.offset] = fed[st.offset] + add],
                !.temp = <<[st.temp[1] EXCEPT ![st.i] = out0],
                           [st.temp[2] EXCEPT ![st.i] = feedb]>>,
                !.offset = offset1, !.tap1 = tap1n, !.tap2 = tap2n,
                !.i = st.i + 1, !.z1 = f.z1, !.z2 = f.z2,
                !.td = SizeSub(st.td, 1),
                !.runs = st.runs + 1,
                !.access = Max(st.access, Max(st.offset, Max(st.tap1, st.tap2))),
                !.peak = Max(st.peak, Max(offset1, Max(tap1n, tap2n))),
                !.ins = Append(st.ins, in[st.i]),
                !.slots = Append(st.slots, fed[st.offset] + add),
                !.adds = Append(st.adds, add),
                !.filtered = Append(st.filtered, f.out),
                !.same = st.same \/ st.tap1 = st.offset \/ st.tap2 = st.offset]

\* do { ... } while(--td)
RECURSIVE DoWhile(_, _, _, _)
DoWhile(st, in, filter, feedGain) ==
    LET next == Body(st, in, filter, feedGain)
    IN  IF next.td # 0 THEN DoWhile(next, in, filter, feedGain) ELSE next

\* for(i = 0; i < samplesToDo;) { mask the three indices; td = ...; do-while }
RECURSIVE ForLoop(_, _, _, _, _)
ForLoop(st, in, samplesToDo, filter, feedGain) ==
    IF ~(st.i < samplesToDo) \/ st.oob THEN st
    ELSE
    LET mask == SizeSub(Size(st.buf), 1)
        offset == Masked(st.offset, mask)
        tap1 == Masked(st.tap1, mask)
        tap2 == Masked(st.tap2, mask)
        td == ChunkLen(mask, offset, tap1, tap2, samplesToDo, st.i)
        top == [st EXCEPT !.offset = offset, !.tap1 = tap1, !.tap2 = tap2,
                          !.td = td, !.tds = Append(st.tds, td)]
    IN  ForLoop(DoWhile(top, in, filter, feedGain), in, samplesToDo,
                filter, feedGain)

\* The locals at loop entry
LoopEntry(buf, offset, taps, filter, temp) ==
    [buf |-> buf, temp |-> temp, offset |-> offset,
     tap1 |-> SizeSub(offset, taps[1]), tap2 |-> SizeSub(offset, taps[2]),
     i |-> 0, z1 |-> filter.z1, z2 |-> filter.z2, td |-> 0,
     runs |-> 0, access |-> -1, peak |-> -1, ins |-> <<>>, slots |-> <<>>,
     adds |-> <<>>, filtered |-> <<>>, tds |-> <<>>, same |-> FALSE,
     oob |-> FALSE]

\* The loop of process from entry to exit
RunLoop(buf, offset, taps, filter, feedGain, temp, in, samplesToDo) ==
    ForLoop(LoopEntry(buf, offset, taps, filter, temp), in, samplesToDo,
            filter, feedGain)

\* mOffset = offset
StoredOffset(offset) == offset

\* MixSamples(line, samplesOut, Current, Target, samplesToDo, 0): ramps the
\* gains from Current to Target over samplesToDo samples and leaves Current
\* at the end of the ramp
MixSamples(gains) == [Current |-> gains.Target, Target |-> gains.Target]

\* What the call did, kept for the properties
Observed(st) ==
    [runs |-> st.runs, access |-> st.access, peak |-> st.peak, ins |-> st.ins,
     slots |-> st.slots, adds |-> st.adds, filtered |-> st.filtered,
     tds |-> st.tds, same |-> st.same, oob |-> st.oob,
     taps |-> <<st.tap1, st.tap2>>,
     temp |-> <<[k \in 1 .. st.runs |-> st.temp[1][k - 1]],
                [k \in 1 .. st.runs |-> st.temp[2][k - 1]]>>]

NoObs == Observed(LoopEntry(<<>>, 0, <<0, 0>>, [z1 |-> 0, z2 |-> 0],
                            <<Zeros(0), Zeros(0)>>))

\* The loop of process on the instance's state
Loop(s, samplesToDo, in) ==
    RunLoop(s.mSampleBuffer, s.mOffset, s.mDelayTap, s.mFilter, s.mFeedGain,
            s.mTempBuffer, in, samplesToDo)

\* Variant: the filter's running state not stored back
processFilterNotSaved(s, samplesToDo, in) ==
    LET st == Loop(s, samplesToDo, in)
    IN  [s EXCEPT !.mSampleBuffer = st.buf,
                  !.mTempBuffer = st.temp,
                  !.mOffset = StoredOffset(st.offset),
                  !.mGains = [c \in DOMAIN @ |-> MixSamples(@[c])]]

\* mFilter.setComponents(z1, z2); mOffset = offset; the two MixSamples calls
process(s, samplesToDo, in) ==
    LET st == Loop(s, samplesToDo, in)
    IN  [s EXCEPT !.mSampleBuffer = st.buf,
                  !.mTempBuffer = st.temp,
                  !.mFilter = [@ EXCEPT !.z1 = st.z1, !.z2 = st.z2],
                  !.mOffset = StoredOffset(st.offset),
                  !.mGains = [c \in DOMAIN @ |-> MixSamples(@[c])]]

-----------------------------------------------------------------------------
(* The inputs the host hands to the handlers *)

\* Rates at which the maximum delay spans at least one sample
Rates == {r \in 1 .. MaxRate : RoundSamples(EchoMaxDelay, r) >= 1}

\* EchoProps within the ranges the host clamps to: Delay in [0, EchoMaxDelay],
\* LRDelay in [0, EchoMaxLRDelay] (milliseconds), Feedback 0 or 1, Damping in
\* sixteenths (16: fully damped), Spread 1 (to the side)
Props == [Delay : {0, EchoMaxDelay}, LRDelay : {0, EchoMaxLRDelay},
          Feedback : {0, 1}, Damping : {16}, Spread : {1}]

SlotGains == {1}
Targets == {1}
Samples == {0, 1}
Blocks == UNION {[0 .. n - 1 -> Samples] : n \in 1 .. MaxBlock}

NoHist == [ins |-> <<>>, t0 |-> <<>>, t1 |-> <<>>, slots |-> <<>>, z |-> <<0, 0>>]

\* The instance's state as a record, and the variables set from one
State ==
    [mSampleBuffer |-> mSampleBuffer, mDelayTap |-> mDelayTap,
     mOffset |-> mOffset, mGains |-> mGains, mFilter |-> mFilter,
     mFeedGain |-> mFeedGain, mTempBuffer |-> mTempBuffer,
     mOutTarget |-> mOutTarget, allocations |-> allocations]

Becomes(s) ==
    /\ mSampleBuffer' = s.mSampleBuffer /\ mDelayTap' = s.mDelayTap
    /\ mOffset' = s.mOffset /\ mGains' = s.mGains /\ mFilter' = s.mFilter
    /\ mFeedGain' = s.mFeedGain /\ mTempBuffer' = s.mTempBuffer
    /\ mOutTarget' = s.mOutTarget /\ allocations' = s.allocations

Is(s) ==
    /\ mSampleBuffer = s.mSampleBuffer /\ mDelayTap = s.mDelayTap
    /\ mOffset = s.mOffset /\ mGains = s.mGains /\ mFilter = s.mFilter
    /\ mFeedGain = s.mFeedGain /\ mTempBuffer = s.mTempBuffer
    /\ mOutTarget = s.mOutTarget /\ allocations = s.allocations

\* The state after construction (the member initialisers of EchoState; a
\* default BiquadFilter passes its input through)
Constructed ==
    [mSampleBuffer |-> Zeros(0), mDelayTap |-> <<0, 0>>, mOffset |-> 0,
     mGains |-> <<OutGains, OutGains>>,
     mFilter |-> [b0 |-> 1, b1 |-> 0, b2 |-> 0, a1 |-> 0, a2 |-> 0,
                  z1 |-> 0, z2 |-> 0],
     mFeedGain |-> 0, mTempBuffer |-> <<Zeros(MaxBlock), Zeros(MaxBlock)>>,
     mOutTarget |-> 0, allocations |-> 0]

\* The host gives a new instance its device before anything else: the run
\* starts after construction and the first deviceUpdate, at any rate
Started(r) ==
    /\ mSampleRate = r
    /\ Is(deviceUpdate(Constructed, r))
    /\ lastOp = "resize"
    /\ obs = NoObs
    /\ hist = NoHist
    /\ steps = 0

Init == \E r \in Rates : Started(r) /\ scen = "off"

\* The host resets the device to rate r and calls deviceUpdate
DoResize(r) ==
    /\ mSampleRate' = r
    /\ Becomes(deviceUpdate(State, r))
    /\ lastOp' = "resize" /\ obs' = NoObs

\* The host calls update with the device's rate
DoUpdate(props, g, target) ==
    /\ Becomes(update(State, mSampleRate, props, g, target))
    /\ lastOp' = "update" /\ obs' = NoObs
    /\ UNCHANGED mSampleRate

\* The host calls process with a block of samples
DoProcess(in) ==
    /\ Becomes(process(State, Size(in), in))
    /\ obs' = Observed(Loop(State, Size(in), in))
    /\ lastOp' = "process"
    /\ UNCHANGED mSampleRate

Resize ==
    \E r \in Rates :
        /\ scen = "off" /\ steps < MaxSteps
        /\ DoResize(r)
        /\ steps' = steps + 1
        /\ UNCHANGED <<hist, scen>>

Update ==
    \E props \in Props, g \in SlotGains, target \in Targets :
        /\ scen = "off" /\ steps < MaxSteps
        /\ DoUpdate(props, g, target)
        /\ steps' = steps + 1
        /\ UNCHANGED <<hist, scen>>

Process ==
    \E in \in Blocks :
        /\ scen = "off" /\ steps < MaxSteps
        /\ DoProcess(in)
        /\ steps' = steps + 1
        /\ UNCHANGED <<hist, scen>>

Next == Resize \/ Update \/ Process

Spec == Init /\ [][Next]_vars

-----------------------------------------------------------------------------
(* The impulse experiment.  The instance is new, or has seen one update and *)
(* one block; then the device is reset (the buffer is zeroed), update sets  *)
(* the parameters, and blocks of any sizes are processed whose samples are  *)
(* all zero but at most one.  hist keeps, since the reset: the samples fed, *)
(* the two taps' streams, the value each sample left in its buffer slot,    *)
(* and the filter's running state at the reset.                             *)

\* The longest first delay; every extra delay, feedback gain and damping
ImpulseProps == [Delay : {EchoMaxDelay},
                 LRDelay : {0, EchoMaxLRDelay \div 2, EchoMaxLRDelay},
                 Feedback : {0, 1}, Damping : {0, 16}, Spread : {1}]

\* The update before the experiment: the shortest delays, full feedback
\* through the damping filter
WarmProps == [Delay : {0}, LRDelay : {0}, Feedback : {1}, Damping : {16},
              Spread : {1}]

NonZero(seq) == {k \in DOMAIN seq : seq[k] # 0}

\* The block as a sequence
BlockSeq(in) == [k \in 1 .. Size(in) |-> in[k - 1]]

ImpulseInit == \E r \in Rates : Started(r) /\ scen = "new"

WarmUpdate ==
    \E props \in WarmProps, g \in SlotGains, target \in Targets :
        /\ scen = "new"
        /\ DoUpdate(props, g, target)
        /\ scen' = "updated"
        /\ UNCHANGED <<hist, steps>>

WarmProcess ==
    \E in \in Blocks :
        /\ scen = "updated"
        /\ DoProcess(in)
        /\ scen' = "used"
        /\ UNCHANGED <<hist, steps>>

ImpulseResize ==
    \E r \in Rates :
        /\ scen \in {"new", "used"}
        /\ DoResize(r)
        /\ scen' = "sized" /\ UNCHANGED steps
        /\ hist' = [NoHist EXCEPT !.z = <<mFilter.z1, mFilter.z2>>]

ImpulseUpdate ==
    \E props \in ImpulseProps, g \in SlotGains, target \in Targets :
        /\ scen = "sized"
        /\ DoUpdate(props, g, target)
        /\ scen' = "ready"
        /\ UNCHANGED <<hist, steps>>

ImpulseProcess ==
    \E in \in Blocks :
        /\ scen = "ready"
        /\ Len(hist.ins) + Size(in) <= MaxSamples
        /\ Cardinality(NonZero(hist.ins \o BlockSeq(in))) <= 1
        /\ DoProcess(in)
        /\ hist' = [hist EXCEPT !.ins = @ \o obs'.ins,
                                 !.t0 = @ \o obs'.temp[1],
                                 !.t1 = @ \o obs'.temp[2],
                                 !.slots = @ \o obs'.slots]
        /\ UNCHANGED <<scen, steps>>

ImpulseNext ==
    WarmUpdate \/ WarmProcess \/ ImpulseResize \/ ImpulseUpdate \/ ImpulseProcess

ImpulseSpec == ImpulseInit /\ [][ImpulseNext]_vars

-----------------------------------------------------------------------------
(* The instance reused across device resets.  A new instance gets its       *)
(* parameters and processes up to two blocks; the device is then reset to   *)
(* any rate, which leaves the cursor, the tap offsets and the filter of the *)
(* old rate in place; then the device is reset once more at the same rate,  *)
(* or a block is processed before any update, or update is called again.    *)
(* hist keeps the call's inputs, the state the call found, and what the     *)
(* same inputs give when the call is made differently.                      *)

\* Blocks of ones, one of each length
WarmBlocks == {in \in Blocks : \A k \in DOMAIN in : in[k] = 1}

\* The members of the instance (the state without the count of allocations)
Instance(s) ==
    [mSampleBuffer |-> s.mSampleBuffer, mDelayTap |-> s.mDelayTap,
     mOffset |-> s.mOffset, mGains |-> s.mGains, mFilter |-> s.mFilter,
     mFeedGain |-> s.mFeedGain, mTempBuffer |-> s.mTempBuffer,
     mOutTarget |-> s.mOutTarget]

\* What update sets
UpdateOutputs(s) ==
    [mDelayTap |-> s.mDelayTap,
     coeffs |-> <<s.mFilter.b0, s.mFilter.b1, s.mFilter.b2, s.mFilter.a1,
                  s.mFilter.a2>>,
     mFeedGain |-> s.mFeedGain,
     targets |-> [c \in DOMAIN s.mGains |-> s.mGains[c].Target]]

\* The first n samples of a block, and the rest
FirstPart(in, n) == [k \in 0 .. n - 1 |-> in[k]]
RestPart(in, n) == [k \in 0 .. Size(in) - n - 1 |-> in[n + k]]

\* What processing leaves: the buffer, the cursor modulo the length, the
\* filter's running state and the two taps' streams
Outcome(s, t0, t1, oob) ==
    [buf |-> s.mSampleBuffer, cursor |-> s.mOffset % Size(s.mSampleBuffer),
     z |-> <<s.mFilter.z1, s.mFilter.z2>>, t0 |-> t0, t1 |-> t1, oob |-> oob]

\* The block processed by one call
Whole(s, in) ==
    LET o == Observed(Loop(s, Size(in), in))
    IN  Outcome(process(s, Size(in), in), o.temp[1], o.temp[2], o.oob)

\* The block processed by two calls, the first n samples and then the rest
Split(s, in, n) ==
    LET in1 == FirstPart(in, n)
        in2 == RestPart(in, n)
        s1 == process(s, n, in1)
        o1 == Observed(Loop(s, n, in1))
        o2 == Observed(Loop(s1, Size(in2), in2))
    IN  Outcome(process(s1, Size(in2), in2), o1.temp[1] \o o2.temp[1],
                o1.temp[2] \o o2.temp[2], o1.oob \/ o2.oob)

\* The reference loop: one sample at a time, each of the three indices
\* reduced modulo the length after every increment
RECURSIVE RefLoop(_, _, _, _)
RefLoop(st, in, filter, feedGain) ==
    IF st.i >= Size(in) THEN st
    ELSE
    LET n == Size(st.buf)
        fed == [st.buf EXCEPT ![st.offset] = in[st.i]]
        f == processOne(filter, fed[st.tap2], st.z1, st.z2)
    IN  RefLoop([buf |-> [fed EXCEPT ![st.offset] = @ + f.out * feedGain],
                 t0 |-> Append(st.t0, fed[st.tap1]),
                 t1 |-> Append(st.t1, fed[st.tap2]),
                 offset |-> (st.offset + 1) % n,
                 tap1 |-> (st.tap1 + 1) % n,
                 tap2 |-> (st.tap2 + 1) % n,
                 i |-> st.i + 1, z1 |-> f.z1, z2 |-> f.z2],
                in, filter, feedGain)

Reference(s, in) ==
    LET n == Size(s.mSampleBuffer)
        st == RefLoop([buf |-> s.mSampleBuffer, t0 |-> <<>>, t1 |-> <<>>,
                       offset |-> s.mOffset % n,
                       tap1 |-> (s.mOffset - s.mDelayTap[1]) % n,
                       tap2 |-> (s.mOffset - s.mDelayTap[2]) % n,
                       i |-> 0, z1 |-> s.mFilter.z1, z2 |-> s.mFilter.z2],
                      in, s.mFilter, s.mFeedGain)
    IN  [buf |-> st.buf, cursor |-> st.offset, z |-> <<st.z1, st.z2>>,
         t0 |-> st.t0, t1 |-> st.t1, oob |-> FALSE]

\* The records kept in hist
UpdateRec(s, rate, props, g, target) ==
    [op |-> "update", pre |-> s, props |-> props,
     clean |-> update(deviceUpdate(Constructed, rate), rate, props, g, target),
     again |-> update(update(s, rate, props, g, target), rate, props, g, target)]

ProcessRec(s, in) ==
    [op |-> "process", pre |-> s, in |-> in, whole |-> Whole(s, in),
     parts |-> [n \in 1 .. Size(in) - 1 |-> Split(s, in, n)],
     ref |-> Reference(s, in)]

ResizeRec(s) == [op |-> "resize", pre |-> s]

ReuseInit == \E r \in Rates : Started(r) /\ scen = "fresh"

ReuseUpdate ==
    \E props \in Props, g \in SlotGains, target \in Targets :
        /\ scen = "fresh"
        /\ DoUpdate(props, g, target)
        /\ hist' = UpdateRec(State, mSampleRate, props, g, target)
        /\ scen' = "set"
        /\ UNCHANGED steps

ReuseProcess ==
    \E in \in WarmBlocks :
        /\ scen \in {"set", "run1"}
        /\ DoProcess(in)
        /\ hist' = ProcessRec(State, in)
        /\ scen' = IF scen = "set" THEN "run1" ELSE "run2"
        /\ UNCHANGED steps

ReuseResize ==
    \E r \in Rates :
        /\ scen \in {"set", "run1", "run2"}
        /\ DoResize(r)
        /\ hist' = ResizeRec(State)
        /\ scen' = "stale"
        /\ UNCHANGED steps

ReuseResizeAgain ==
    /\ scen = "stale"
    /\ DoResize(mSampleRate)
    /\ hist' = ResizeRec(State)
    /\ scen' = "stale2"
    /\ UNCHANGED steps

StaleProcess ==
    \E in \in Blocks :
        /\ scen = "stale"
        /\ DoProcess(in)
        /\ hist' = ProcessRec(State, in)
        /\ scen' = "staleRun"
        /\ UNCHANGED steps

\* The parameters of the later update: the longest first delay, either
\* extreme of the others
ReProps == [Delay : {EchoMaxDelay}, LRDelay : {0, EchoMaxLRDelay},
            Feedback : {0, 1}, Damping : {0, 16}, Spread : {-1, 1}]

ReUpdate ==
    \E props \in ReProps, g \in SlotGains, target \in Targets :
        /\ scen \in {"run1", "stale"}
        /\ DoUpdate(props, g, target)
        /\ hist' = UpdateRec(State, mSampleRate, props, g, target)
        /\ scen' = "reset"
        /\ UNCHANGED steps

ReuseNext ==
    \/ ReuseUpdate \/ ReuseProcess \/ ReuseResize \/ ReuseResizeAgain
    \/ StaleProcess \/ ReUpdate

ReuseSpec == ReuseInit /\ [][ReuseNext]_vars

-----------------------------------------------------------------------------
(* Properties of deviceUpdate, update and the indices of process (Spec) *)

N == Size(mSampleBuffer)
Pow2s == {1, 2, 4, 8, 16, 32, 64, 128, 256}
AllZero(f) == \A i \in DOMAIN f : f[i] = 0
SmallestPow2AtLeast(n, required) ==
    /\ n \in Pow2s
    /\ n >= required
    /\ \A m \in Pow2s : m >= required => n <= m

\* C1 as stated: during and after every process call the write cursor and the
\* two tap read positions are below N after every increment, the cursor
\* stored back into mOffset included.
C1_IndicesAlwaysBelowN ==
    lastOp = "process" =>
        /\ obs.peak < N
        /\ mOffset < N
        /\ obs.taps[1] < N /\ obs.taps[2] < N

\* C1 amended: every index process uses to read or write the buffer is in
\* [0, N); after an increment an index is at most N (it is masked again
\* before its next use), and the cursor stored back into mOffset is in
\* [1, N], the value N included.
C1_IndicesBelowNWhenUsed ==
    lastOp = "process" =>
        /\ ~obs.oob
        /\ obs.access >= 0 /\ obs.access < N
        /\ obs.peak <= N
        /\ mOffset \in 1 .. N
        /\ obs.taps[1] \in 1 .. N /\ obs.taps[2] \in 1 .. N

\* A block that ended at the end of the buffer: mOffset holds N.
C1_Witness == lastOp = "process" /\ N > 0 /\ mOffset = N /\ obs.runs > 1

\* C2 as stated: a deviceUpdate at the rate the device already has does not
\* reallocate and leaves the buffer's contents as they were.
C2_SameRateResizeKeepsHistory ==
    [][(lastOp' = "resize" /\ mSampleRate' = mSampleRate) =>
          (allocations' = allocations /\ mSampleBuffer' = mSampleBuffer)]_vars

\* C2 amended: a deviceUpdate at the rate the device already has does not
\* reallocate (the length stays) but zero-fills the buffer: the echo history
\* is discarded.
C2_SameRateResizeKeepsStorageOnly ==
    [][(lastOp' = "resize" /\ mSampleRate' = mSampleRate) =>
          /\ allocations' = allocations
          /\ DOMAIN mSampleBuffer' = DOMAIN mSampleBuffer
          /\ AllZero(mSampleBuffer')]_vars

\* The device stayed at 3 Hz throughout (one allocation), a block with a
\* nonzero sample was processed, and deviceUpdate ran again.
C2_Witness ==
    /\ lastOp = "resize" /\ mSampleRate = 3 /\ allocations = 1
    /\ mOffset > 0 /\ mTempBuffer[1][0] # 0

\* C3 as stated: the buffer length is the smallest power of two >= the sum of
\* the two maximum delays' sample counts, each rounded up.
C3_LengthFromCeilings ==
    SmallestPow2AtLeast(N, CeilSamples(EchoMaxDelay, mSampleRate)
                           + CeilSamples(EchoMaxLRDelay, mSampleRate))

\* C3 amended: the buffer length is the smallest power of two >= the sum of
\* the two maximum delays' sample counts, each rounded to the nearest integer
\* (half up), not up.
C3_LengthFromRounding ==
    SmallestPow2AtLeast(N, RoundSamples(EchoMaxDelay, mSampleRate)
                           + RoundSamples(EchoMaxLRDelay, mSampleRate))

\* At 3 Hz the rounded counts are 1 + 1 and the length is 2; rounded up they
\* are 1 + 2, which would need 4.
C3_Witness ==
    /\ lastOp = "resize" /\ steps > 0 /\ mSampleRate = 3 /\ N = 2
    /\ CeilSamples(EchoMaxDelay, 3) + CeilSamples(EchoMaxLRDelay, 3) > N

\* C4 as stated: after update, tap 1's offset is greater than tap 0's, which
\* is at least 1.
C4_Tap1StrictlyBehindTap0 ==
    lastOp = "update" => (mDelayTap[2] > mDelayTap[1] /\ mDelayTap[1] >= 1)

\* C4 amended: after update, tap 1's offset is at least tap 0's, which is at
\* least 1; the two are equal when the extra delay rounds to 0 samples.
C4_Tap1NotBeforeTap0 ==
    lastOp = "update" => (mDelayTap[2] >= mDelayTap[1] /\ mDelayTap[1] >= 1)

\* An update whose extra delay was 0: the offsets are equal.
C4_Witness == lastOp = "update" /\ mDelayTap[2] = mDelayTap[1]

\* C5: right after any deviceUpdate every element of the buffer is zero and
\* both taps' Current gains are zero.
C5_ResizeZeroes ==
    lastOp = "resize" =>
        /\ AllZero(mSampleBuffer)
        /\ \A c \in DOMAIN mGains : AllZero(mGains[c].Current)

\* A deviceUpdate that kept the storage, after an update and a block that
\* left the filter with a nonzero state (so the buffer held samples and the
\* Current gains had reached a nonzero target).
C5_Witness ==
    lastOp = "resize" /\ allocations = 1 /\ mFilter.z1 # 0 /\ mOutTarget # 0

\* C6: update leaves the buffer, the write cursor, both Current vectors and
\* the filter's two running terms as they were (and the temporary lines and
\* the storage); what it sets is the tap offsets, the coefficients, the
\* feedback gain, the output target and the Target vectors.
C6_UpdateFrame ==
    [][lastOp' = "update" =>
          /\ mSampleBuffer' = mSampleBuffer
          /\ mOffset' = mOffset
          /\ \A c \in DOMAIN mGains : mGains'[c].Current = mGains[c].Current
          /\ mFilter'.z1 = mFilter.z1 /\ mFilter'.z2 = mFilter.z2
          /\ mTempBuffer' = mTempBuffer
          /\ allocations' = allocations /\ mSampleRate' = mSampleRate]_vars

\* An update that found samples in the buffer, a moved cursor, nonzero
\* Current gains and a nonzero filter state.
C6_Witness ==
    /\ lastOp = "update" /\ ~AllZero(mSampleBuffer) /\ mOffset > 0
    /\ ~AllZero(mGains[1].Current) /\ mFilter.z1 # 0

\* C10 as stated: a deviceUpdate that reallocates the buffer sets the write
\* cursor to 0, and nothing else but process changes the cursor.
C10_ReallocResetsCursor ==
    [][/\ (lastOp' = "resize" /\ allocations' # allocations) => mOffset' = 0
       /\ (lastOp' = "update" \/ (lastOp' = "resize" /\ allocations' = allocations))
              => mOffset' = mOffset]_vars

\* C10 amended: deviceUpdate never changes the write cursor, whether it
\* reallocates or not; only process changes it (update does not either).
C10_OnlyProcessMovesCursor ==
    [][lastOp' # "process" => mOffset' = mOffset]_vars

\* A reallocating deviceUpdate after the cursor had moved: the cursor kept
\* its value.
C10_Witness == lastOp = "resize" /\ allocations >= 2 /\ mOffset > 0

-----------------------------------------------------------------------------
(* Properties of the impulse experiment (ImpulseSpec) *)

Fed == Len(hist.ins)
HasImpulse == NonZero(hist.ins) # {}
ImpulseAt == CHOOSE k \in NonZero(hist.ins) : TRUE
PassThrough ==
    mFilter.b1 = 0 /\ mFilter.b2 = 0 /\ mFilter.a1 = 0 /\ mFilter.a2 = 0

\* The filter's outputs for the inputs seq, from the running state <<z1, z2>>
RECURSIVE FilterOuts(_, _, _)
FilterOuts(seq, z1, z2) ==
    IF seq = <<>> THEN <<>>
    ELSE LET f == processOne(mFilter, Head(seq), z1, z2)
         IN  <<f.out>> \o FilterOuts(Tail(seq), f.z1, f.z2)

\* What each sample's slot held tap1Offset samples earlier (0 before the
\* first sample)
StoredEarlier ==
    [j \in 1 .. Fed |->
        IF j > mDelayTap[2] THEN hist.slots[j - mDelayTap[2]] ELSE 0]

\* C7 as stated: from a zeroed buffer and after update, an impulse fed at
\* sample n shows in tap 0's stream with its value exactly at n + tap0Offset
\* and as a nonzero value in tap 1's stream at n + tap1Offset, and both
\* streams are zero before those samples.
C7_ImpulseAtTapOffsets ==
    (scen = "ready" /\ HasImpulse) =>
        \A j \in 1 .. Fed :
            /\ j < ImpulseAt + mDelayTap[1] => hist.t0[j] = 0
            /\ j = ImpulseAt + mDelayTap[1] => hist.t0[j] = hist.ins[ImpulseAt]
            /\ j < ImpulseAt + mDelayTap[2] => hist.t1[j] = 0
            /\ j = ImpulseAt + mDelayTap[2] => hist.t1[j] # 0

\* C8 as stated, where tap 1 reads a slot written earlier (tap1Offset < N):
\* with feedback gain > 0, what is added to the slot at the write cursor is
\* the gain times the filtered value stored tap1Offset samples earlier, and
\* an impulse fed at n shows in tap 1's stream at n + k*tap1Offset
\* (k = 1, 2, ...) and at no other sample.
C8_EchoesOnlyAtMultiples ==
    (scen = "ready" /\ mFeedGain > 0 /\ mDelayTap[2] < N) =>
        /\ \A j \in 1 .. Fed :
              hist.slots[j] - hist.ins[j] =
                  mFeedGain * FilterOuts(StoredEarlier, hist.z[1], hist.z[2])[j]
        /\ HasImpulse =>
              \A j \in 1 .. Fed :
                  hist.t1[j] # 0 <=>
                      (j > ImpulseAt /\ (j - ImpulseAt) % mDelayTap[2] = 0)

\* C8 amended: with feedback gain > 0, what is added to the slot at the write
\* cursor is the gain times the feedback filter's output for the value tap 1
\* read at that sample, the filter's state running on from block to block.
\* If the filter passes its input through and starts at rest, an impulse fed
\* at n shows in tap 1's stream exactly every e = tap1Offset mod N samples
\* after n (every tap1Offset samples when tap1Offset < N), and at sample n
\* alone when e = 0; a damping filter, or one not at rest, adds to other
\* samples as well.
C8_FeedbackIsFilteredTap1 ==
    (scen = "ready" /\ mFeedGain > 0) =>
        /\ \A j \in 1 .. Fed :
              hist.slots[j] =
                  hist.ins[j]
                  + mFeedGain * FilterOuts(hist.t1, hist.z[1], hist.z[2])[j]
        /\ (HasImpulse /\ PassThrough /\ hist.z = <<0, 0>>) =>
              LET e == mDelayTap[2] % N
              IN  \A j \in 1 .. Fed :
                      hist.t1[j] # 0 <=>
                          IF e = 0 THEN j = ImpulseAt
                          ELSE j > ImpulseAt /\ (j - ImpulseAt) % e = 0

\* Two echoes of an impulse, tap1Offset >= 2 samples apart, through a
\* pass-through filter.
C8_Witness ==
    /\ scen = "ready" /\ mFeedGain > 0 /\ PassThrough /\ hist.z = <<0, 0>>
    /\ HasImpulse /\ mDelayTap[2] >= 2 /\ mDelayTap[2] < N
    /\ Fed >= ImpulseAt + 2 * mDelayTap[2]
    /\ hist.t1[ImpulseAt + 2 * mDelayTap[2]] # 0

\* C9: with feedback gain 0 every sample's slot holds exactly the input
\* sample written to it, and an impulse gives exactly one nonzero sample in
\* each tap's stream (at the tap's offset mod N after it) and zeros after.
C9_NoRecirculation ==
    (scen = "ready" /\ mFeedGain = 0) =>
        /\ \A j \in 1 .. Fed : hist.slots[j] = hist.ins[j]
        /\ HasImpulse =>
              /\ NonZero(hist.t0) = {ImpulseAt + (mDelayTap[1] % N)} \cap (1 .. Fed)
              /\ NonZero(hist.t1) = {ImpulseAt + (mDelayTap[2] % N)} \cap (1 .. Fed)

\* An impulse through a damping filter with gain 0, seen once by tap 1 and
\* followed by at least two more samples.
C9_Witness ==
    /\ scen = "ready" /\ mFeedGain = 0 /\ ~PassThrough /\ HasImpulse
    /\ mDelayTap[2] < N /\ Fed >= ImpulseAt + mDelayTap[2] + 2
    /\ hist.t1[ImpulseAt + mDelayTap[2]] # 0

-----------------------------------------------------------------------------
(* Properties of the reused instance (ReuseSpec) *)

RECURSIVE SeqSum(_)
SeqSum(seq) == IF seq = <<>> THEN 0 ELSE Head(seq) + SeqSum(Tail(seq))

\* C11: whatever state a deviceUpdate and the calls after it left, process
\* runs the loop body exactly samplesToDo times: every sub-chunk length td is
\* at least 1 (and at most N), the lengths add up to samplesToDo, and no
\* index leaves the buffer or the block.
C11_BodyRunsOncePerSample ==
    lastOp = "process" =>
        /\ ~obs.oob
        /\ obs.runs = Size(hist.in)
        /\ \A k \in DOMAIN obs.tds : obs.tds[k] >= 1 /\ obs.tds[k] <= N
        /\ SeqSum(obs.tds) = Size(hist.in)

\* A block processed in two sub-chunks, from a cursor left beyond the length
\* of the buffer by a reset to a lower rate.
C11_Witness ==
    /\ scen = "staleRun" /\ hist.pre.mOffset > N
    /\ Len(obs.tds) >= 2 /\ obs.runs = Size(hist.in)

\* C12: what update sets (the tap offsets, the filter's coefficients, the
\* feedback gain and the Target vectors) is a function of its inputs alone:
\* it is what the same call sets on a new instance at the same rate, whatever
\* the calls before left, and a second call with the same inputs sets the
\* same again.
C12_UpdateIsPureFunction ==
    lastOp = "update" =>
        /\ UpdateOutputs(State) = UpdateOutputs(hist.clean)
        /\ UpdateOutputs(hist.again) = UpdateOutputs(State)

\* An update that found other tap offsets, other coefficients, another
\* feedback gain and other Target gains, samples in the buffer and a filter
\* not at rest.
C12_Witness ==
    /\ scen = "reset"
    /\ hist.pre.mDelayTap[1] # mDelayTap[1]
    /\ hist.pre.mFilter.b1 # mFilter.b1
    /\ hist.pre.mFeedGain # mFeedGain
    /\ hist.pre.mGains[1].Target # mGains[1].Target
    /\ ~AllZero(hist.pre.mSampleBuffer) /\ hist.pre.mFilter.z1 # 0

\* C13: deviceUpdate is idempotent: a second deviceUpdate at the same rate,
\* right after the first, leaves every member of the instance as the first
\* left it (buffer length and contents, gains, cursor, tap offsets, filter,
\* feedback gain) and allocates nothing.
C13_ResizeIdempotent ==
    scen = "stale2" =>
        /\ Instance(State) = Instance(hist.pre)
        /\ allocations = hist.pre.allocations

\* The first deviceUpdate allocated a new buffer and found a moved cursor
\* and a filter not at rest; the second one followed.
C13_Witness ==
    /\ scen = "stale2" /\ allocations >= 2 /\ mOffset > 0 /\ mFilter.z1 # 0
    /\ mDelayTap[2] > 0

\* C14 as stated: in every state after the first deviceUpdate the buffer
\* length is at least tap 1's offset (and tap 0's), also after a deviceUpdate
\* at a lower rate that no update has followed yet.
C14_LengthCoversTapsAlways ==
    N >= mDelayTap[2] /\ N >= mDelayTap[1]

\* C14 amended: from an update at the device's rate until the next
\* deviceUpdate, the buffer length is at least tap 1's offset, which is at
\* least tap 0's (the length can equal tap 1's offset).  A deviceUpdate at a
\* lower rate leaves the old offsets, which can exceed the new length until
\* the next update.
C14_LengthCoversTapsOnceUpdated ==
    scen \in {"set", "run1", "run2", "reset"} =>
        N >= mDelayTap[2] /\ mDelayTap[2] >= mDelayTap[1]

\* An update after a deviceUpdate at a lower rate: the offset it found
\* exceeded the length, the offset it set equals it.
C14_Witness ==
    /\ scen = "reset" /\ hist.pre.mDelayTap[2] > N /\ mDelayTap[2] = N
    /\ Size(hist.pre.mSampleBuffer) = N

\* C15: after deviceUpdate and update at the same rate, with delays anywhere
\* within the maxima, in no iteration of process does a tap's read position
\* equal the write cursor: the sample written in an iteration is not read by
\* a tap in that iteration.
C15_TapsNeverAtCursor ==
    scen \in {"run1", "run2"} => ~obs.same

\* C16: a block processed by one call leaves the same buffer contents, the
\* same cursor modulo N, the same running state of the feedback filter and
\* the same tap streams as its first n samples processed by one call and the
\* rest by a second call, for every n; the filter's state is stored at the
\* end of the first call and read at the start of the second.
C16_BlockSplitInvariant ==
    lastOp = "process" =>
        /\ hist.whole.buf = mSampleBuffer
        /\ hist.whole.z = <<mFilter.z1, mFilter.z2>>
        /\ hist.whole.cursor = mOffset % N
        /\ \A n \in DOMAIN hist.parts : hist.parts[n] = hist.whole

\* A block of at least two samples, split, that wrapped one of the indices,
\* with feedback through a filter that was not at rest before and is not at
\* rest after.
C16_Witness ==
    /\ lastOp = "process" /\ DOMAIN hist.parts # {}
    /\ mFeedGain > 0 /\ hist.pre.mFilter.z1 # 0 /\ mFilter.z1 # 0
    /\ Len(obs.tds) >= 2 /\ ~AllZero(mSampleBuffer)

\* C17: the sub-chunked loop of process gives the same buffer contents, tap
\* streams, filter state and final cursor modulo N as the reference loop that
\* reduces each index modulo N after every increment, for every stored
\* cursor (values of N and more included), all tap offsets (offsets beyond
\* the cursor and beyond N included) and every block.
C17_LoopMatchesReference ==
    lastOp = "process" =>
        /\ hist.whole.buf = mSampleBuffer
        /\ hist.whole.cursor = mOffset % N
        /\ hist.ref = hist.whole

\* A block processed in two sub-chunks from a stored cursor of N or more,
\* with tap 1's offset beyond the cursor and beyond N.
C17_Witness ==
    /\ scen = "staleRun" /\ hist.pre.mOffset >= N
    /\ hist.pre.mDelayTap[2] > hist.pre.mOffset /\ hist.pre.mDelayTap[2] > N
    /\ Len(obs.tds) >= 2 /\ ~AllZero(mSampleBuffer)

\* C18: every read and write of the delay buffer in process uses an index
\* in [0, N), whatever cursor is stored, however the tap offsets compare to
\* N (the offsets of a higher rate after a deviceUpdate to a smaller buffer)
\* and whatever the block size.
C18_AccessesWithinBuffer ==
    lastOp = "process" =>
        /\ ~obs.oob
        /\ obs.runs >= 1
        /\ obs.access \in 0 .. N - 1

\* A block processed to the last slot of a buffer that a deviceUpdate made
\* smaller than the stored cursor and than tap 1's offset, and no larger
\* than tap 0's.
C18_Witness ==
    /\ scen = "staleRun" /\ hist.pre.mOffset > N
    /\ mDelayTap[1] >= N /\ mDelayTap[2] > N
    /\ obs.access = N - 1

\* C19: deviceUpdate zeroes both taps' Target vectors together with the
\* Current vectors, and leaves the tap offsets, the feedback gain and the
\* filter (coefficients and running state) as they were; a block processed
\* before the next update leaves Current and Target at zero.
C19_ResizeClearsTargetsKeepsRest ==
    /\ scen \in {"stale", "stale2"} =>
          /\ \A c \in DOMAIN mGains :
                AllZero(mGains[c].Target) /\ AllZero(mGains[c].Current)
          /\ mDelayTap = hist.pre.mDelayTap
          /\ mFeedGain = hist.pre.mFeedGain
          /\ mFilter = hist.pre.mFilter
    /\ scen = "staleRun" =>
          \A c \in DOMAIN mGains :
              AllZero(mGains[c].Target) /\ AllZero(mGains[c].Current)

\* A deviceUpdate that found nonzero Target and Current gains, tap offsets
\* set, feedback on and a filter not at rest.
C19_Witness ==
    /\ scen = "stale"
    /\ ~AllZero(hist.pre.mGains[1].Target) /\ ~AllZero(hist.pre.mGains[1].Current)
    /\ mDelayTap[2] > 0 /\ mFeedGain > 0 /\ mFilter.z1 # 0 /\ mFilter.b1 # 0

=============================================================================
